---- MODULE Spec2Model ----
(***************************************************************************)
(* Model of skeleton_script_baseline_model.py: the baseline SNP impact     *)
(* predictor.  main() validates the output path, parses the BLOSUM matrix  *)
(* file and the VEP file, looks up one score per record and writes the     *)
(* result file.                                                            *)
(*                                                                         *)
(* A Python str is a sequence of one-character strings; a file is the      *)
(* sequence of its lines, each with its terminating "\n", as the loop      *)
(* `for line in f` yields them.                                            *)
(***************************************************************************)
EXTENDS Integers, Sequences, FiniteSets, TLC

VARIABLES
    pc,            \* the statement of main() that runs next, or how it ended
    out_filepath,  \* args.out_path
    opened,        \* the files opened so far, in order of the open() calls
    blosum_text,   \* the lines parse_blosum read from the matrix file
    vep_text,      \* the lines parse_vep read from the variant file
    blosum_dict,   \* main's blosum_dict
    hgvs_ids,      \* main's hgvs_ids
    ref_aas,       \* main's ref_aas
    mut_aas,       \* main's mut_aas
    scores,        \* main's scores
    out_file,      \* the file at out_filepath: whether it exists, its content
    exc            \* what ended the run: sys.exit or an uncaught exception

vars == <<pc, out_filepath, opened, blosum_text, vep_text, blosum_dict,
          hgvs_ids, ref_aas, mut_aas, scores, out_file, exc>>

\* ------------------------------------------------------------------ bounds
MaxBlosumLines == 3

MaxVepLines == 2

\* ------------------------------------------------------- string primitives
\* The characters str.split() cuts on, among the ASCII characters a line can
\* hold: space, \t, \n, \r, \f, and the control characters 0x0b (\v) and
\* 0x1c .. 0x1f, which stand in the set as themselves.  (The lines of the
\* model are ASCII; str.split() cuts on the non-ASCII spaces as well.)
Whitespace == {" ", "\t", "\n", "\r", "\f", "", "", "", "", ""}

\* str.startswith(c) for a one-character prefix c
StartsWith(s, c) == Len(s) >= 1 /\ s[1] = c

\* needle in s  (substring test)
Contains(s, needle) ==
    \E i \in 1..(Len(s) + 1) :
        /\ i + Len(needle) - 1 <= Len(s)
        /\ SubSeq(s, i, i + Len(needle) - 1) = needle

RECURSIVE LStripNl(_)
LStripNl(s) ==
    IF s # <<>> /\ Head(s) = "\n" THEN LStripNl(Tail(s)) ELSE s

RECURSIVE RStripNl(_)
RStripNl(s) ==
    IF s # <<>> /\ s[Len(s)] = "\n" THEN RStripNl(SubSeq(s, 1, Len(s) - 1))
    ELSE s

\* str.strip('\n')
StripNl(s) == RStripNl(LStripNl(s))

RECURSIVE SplitAcc(_, _, _, _)
SplitAcc(s, seps, cur, acc) ==
    IF s = <<>> THEN Append(acc, cur)
    ELSE IF Head(s) \in seps
         THEN SplitAcc(Tail(s), seps, <<>>, Append(acc, cur))
         ELSE SplitAcc(Tail(s), seps, Append(cur, Head(s)), acc)

\* str.split(sep): every separator cuts, empty pieces are kept
SplitOn(s, sep) == SplitAcc(s, {sep}, <<>>, <<>>)

NonEmpty(t) == t # <<>>

\* str.split(): cut on runs of whitespace, empty pieces are dropped
SplitWs(s) == SelectSeq(SplitAcc(s, Whitespace, <<>>, <<>>), NonEmpty)

\* ------------------------------------------------------------ environment
\* The file system the program is started on, as a tree of names below the
\* root: the working directory is /w, it holds the directory d, and d holds
\* the regular file r.tsv, which is there before the run.
Cwd == << <<"w">> >>

DirNodes == { <<>>, << <<"w">> >>, << <<"w">>, <<"d">> >> }

FileNodes == { << <<"w">>, <<"d">>, <<"r", ".", "t", "s", "v">> >> }

OldContent == <<"o", "l", "d", "\n">>

NoFile == [exists |-> FALSE, data |-> <<>>]

\* one step of the path walk: from what cur is, over the component c (an
\* empty component, of "//" or of a trailing "/", walks as "." does)
WalkStep(cur, c) ==
    IF cur.st \in {"enoent", "enotdir"} THEN cur
    ELSE IF cur.st = "file" THEN [st |-> "enotdir", node |-> cur.node]
    ELSE IF c = <<>> \/ c = <<".">> THEN cur
    ELSE IF c = <<".", ".">>
         THEN [st |-> "dir",
               node |-> SubSeq(cur.node, 1, Len(cur.node) - 1)]
         ELSE LET n == Append(cur.node, c)
              IN  [st |-> IF n \in DirNodes THEN "dir"
                          ELSE IF n \in FileNodes THEN "file"
                          ELSE "enoent",
                   node |-> n]

RECURSIVE Walk(_, _)
Walk(cur, comps) ==
    IF comps = <<>> THEN cur
    ELSE Walk(WalkStep(cur, Head(comps)), Tail(comps))

\* where the walk of a path starts: the root for an absolute path
WalkStart(path) ==
    [st |-> "dir",
     node |-> IF path # <<>> /\ path[1] = "/" THEN <<>> ELSE Cwd]

\* stat(path): what the path names ("dir", "file") or why it names nothing
Stat(path) ==
    IF path = <<>> THEN [st |-> "enoent", node |-> <<>>]
    ELSE Walk(WalkStart(path), SplitOn(path, "/"))

\* the file at the output path before the run
InitialFile(path) ==
    IF Stat(path).st = "file"
    THEN [exists |-> TRUE, data |-> OldContent]
    ELSE NoFile

\* variant: the empty path taken for the current directory
os_path_exists_cwd(p) == p = <<>> \/ Stat(p).st \in {"dir", "file"}

\* os.path.exists(p): true of any path that names something, a directory
\* or a regular file, however it is spelled; false of the empty path
os_path_exists(p) == Stat(p).st \in {"dir", "file"}

\* command lines: the -o argument
OutPaths ==
    { <<"d", "/", "r", ".", "t", "s", "v">>,
      <<".", "/", "d", "/", "r", ".", "t", "s", "v", "x">>,
      <<"d", "/", "r", ".", "t", "x", "t">>,
      <<"m", "/", "r", ".", "t", "s", "v">>,
      <<"r", ".", "t", "s", "v">>,
      <<"r", ".", "t", "x", "t">>,
      <<"d", ".", "t", "s", "v", "/", "r">>,
      <<"d", "/", ".", ".", "/", "m", "/", "r", ".", "t", "s", "v">>,
      <<"d", "/", "/", "r", ".", "t", "s", "v">>,
      <<"d", "/", "r", ".", "t", "s", "v", "/", "x", ".", "t", "s", "v">> }

\* lines a matrix file is made of
BlosumComment == <<"#", "c", "\n">>
BlosumHeader == <<"x", " ", "A", " ", "V", "\n">>
BlosumRowA == <<"A", " ", "4", " ", "1", "\n">>
BlosumRowV == <<"V", " ", "0", " ", "4", "\n">>
BlosumRowLong == <<"V", " ", "3", " ", "4", " ", "9", "\n">>
BlosumRowShort == <<"A", " ", "4", "\r", "\n">>

BlosumLineSet ==
    { BlosumComment, BlosumHeader, BlosumRowA, BlosumRowV,
      BlosumRowLong, BlosumRowShort }

\* lines a variant file is made of
VepHeader == <<"#", "h", "\t", "v", "\n">>
VepRecAV == <<"p", "\t", "A", "/", "V", "\t", "c", "\n">>
VepRecVA == <<"q", "\t", "V", "/", "A", "\t", "c", "\n">>
VepRecAZ == <<"p", "\t", "A", "/", "Z", "\t", "c", "\n">>
VepRecBad == <<"q", "\t", "A", "V", "\t", "c", "\n">>

VepLineSet == { VepHeader, VepRecAV, VepRecVA, VepRecAZ, VepRecBad }

SeqsUpTo(S, n) == UNION { [1..k -> S] : k \in 0..n }

BlosumFiles == SeqsUpTo(BlosumLineSet, MaxBlosumLines)

VepFiles == SeqsUpTo(VepLineSet, MaxVepLines)

\* -------------------------------------------------------------- exceptions
NoExc == [type |-> "none", status |-> 0, msg |-> "", args |-> <<>>]

\* an uncaught exception: traceback on stderr, exit status 1
Raise(t, m, a) == [type |-> t, status |-> 1, msg |-> m, args |-> a]

\* sys.exit(message % value): message to stderr, exit status 1
SysExit(m, value) ==
    [type |-> "SystemExit", status |-> 1, msg |-> m, args |-> <<value>>]

Ok(v) == [exc |-> NoExc, val |-> v]

Fail(e) == [exc |-> e, val |-> <<>>]

\* ------------------------------------------------------------ parse_blosum
\* Python slice s[lo:hi] (0-based, hi clipped to the length)
PySlice(s, lo, hi) ==
    SubSeq(s, lo + 1, IF hi < Len(s) THEN hi ELSE Len(s))

\* dict item assignment d[k] = v
Put(d, k, v) == [x \in (DOMAIN d) \cup {k} |-> IF x = k THEN v ELSE d[x]]

EmptyDict == [x \in {} |-> <<>>]

\* variant: only '#' lines are skipped, the 'x' line is read as a row
blosum_skip_hash_only(line) == StartsWith(line, "#")

\* the "Skip headers" test of parse_blosum
blosum_skip(line) == StartsWith(line, "#") \/ StartsWith(line, "x")

RECURSIVE blosum_read(_, _, _)
\* the reading loop: aas and aa_scores, row by row
blosum_read(lines, aas, aa_scores) ==
    IF lines = <<>> THEN Ok([aas |-> aas, aa_scores |-> aa_scores])
    ELSE LET line == Head(lines)
             toks == SplitWs(StripNl(line))
         IN  IF blosum_skip(line)
             THEN blosum_read(Tail(lines), aas, aa_scores)
             ELSE IF toks = <<>>
                  THEN Fail(Raise("IndexError", "list index out of range", <<>>))
                  ELSE blosum_read(Tail(lines), Append(aas, toks[1]),
                                   Append(aa_scores, PySlice(toks, 1, Len(line))))

RECURSIVE blosum_keys(_, _)
\* for aa in aas: blosum_dict[aa] = {}
blosum_keys(aas, d) ==
    IF aas = <<>> THEN d
    ELSE blosum_keys(Tail(aas), Put(d, Head(aas), EmptyDict))

RECURSIVE blosum_fill(_, _, _, _)
\* the double loop, k counting the (i, j) pairs in the order they are visited
blosum_fill(d, aas, aa_scores, k) ==
    LET n == Len(aas)
        i == (k \div n) + 1
        j == (k % n) + 1
    IN  IF n = 0 \/ k >= n * n THEN Ok(d)
        ELSE IF j > Len(aa_scores[i])
             THEN Fail(Raise("IndexError", "list index out of range", <<>>))
             ELSE blosum_fill(
                      Put(d, aas[i], Put(d[aas[i]], aas[j], aa_scores[i][j])),
                      aas, aa_scores, k + 1)

parse_blosum(lines) ==
    LET r == blosum_read(lines, <<>>, <<>>)
    IN  IF r.exc.type # "none" THEN r
        ELSE blosum_fill(blosum_keys(r.val.aas, EmptyDict),
                         r.val.aas, r.val.aa_scores, 0)

\* --------------------------------------------------------------- parse_vep
RECURSIVE vep_loop(_, _, _, _)
vep_loop(lines, ids, refs, muts) ==
    IF lines = <<>>
    THEN Ok([hgvs_ids |-> ids, ref_aas |-> refs, mut_aas |-> muts])
    ELSE LET line == StripNl(Head(lines))
             flds == SplitOn(line, "\t")
             parts == SplitOn(flds[2], "/")
         IN  IF StartsWith(line, "#")
             THEN vep_loop(Tail(lines), ids, refs, muts)
             ELSE IF Len(flds) < 2
                  THEN Fail(Raise("IndexError", "list index out of range", <<>>))
                  ELSE IF Len(parts) < 2
                       THEN Fail(Raise("ValueError",
                                       "not enough values to unpack", <<>>))
                       ELSE IF Len(parts) > 2
                            THEN Fail(Raise("ValueError",
                                            "too many values to unpack", <<>>))
                            ELSE vep_loop(Tail(lines), Append(ids, flds[1]),
                                          Append(refs, parts[1]),
                                          Append(muts, parts[2]))

\* variant: the first line is dropped whatever it is, then '#' lines
parse_vep_skipfirst(lines) ==
    vep_loop(IF lines = <<>> THEN lines ELSE Tail(lines), <<>>, <<>>, <<>>)

parse_vep(lines) == vep_loop(lines, <<>>, <<>>, <<>>)

\* ------------------------------------------------------------ run_baseline
\* variant: mutant symbol as row, reference symbol as column
lookup_swapped(d, ref_aa, mut_aa) ==
    IF mut_aa \notin DOMAIN d
    THEN Fail(Raise("KeyError", "", <<mut_aa>>))
    ELSE IF ref_aa \notin DOMAIN d[mut_aa]
         THEN Fail(Raise("KeyError", "", <<ref_aa>>))
         ELSE Ok(d[mut_aa][ref_aa])

\* score = blosum_dict[ref_aa][mut_aa]; a missing key raises KeyError(key)
lookup(d, ref_aa, mut_aa) ==
    IF ref_aa \notin DOMAIN d
    THEN Fail(Raise("KeyError", "", <<ref_aa>>))
    ELSE IF mut_aa \notin DOMAIN d[ref_aa]
         THEN Fail(Raise("KeyError", "", <<mut_aa>>))
         ELSE Ok(d[ref_aa][mut_aa])

RECURSIVE baseline_loop(_, _, _, _, _, _)
baseline_loop(ids, refs, muts, d, i, acc) ==
    IF i > Len(ids) THEN Ok(acc)
    ELSE LET r == lookup(d, refs[i], muts[i])
         IN  IF r.exc.type # "none" THEN r
             ELSE baseline_loop(ids, refs, muts, d, i + 1, Append(acc, r.val))

run_baseline(ids, refs, muts, d) == baseline_loop(ids, refs, muts, d, 1, <<>>)

\* -------------------------------------------------------------- write_data
OutHeader == <<"#", " ", "I", "D", "\t", "S", "c", "o", "r", "e", "\n">>

RECURSIVE write_rows(_, _)
\* for id, score in zip(hgvs_ids, scores): f.write(id + '\t' + score + '\n')
write_rows(ids, scs) ==
    IF ids = <<>> \/ scs = <<>> THEN <<>>
    ELSE Head(ids) \o <<"\t">> \o Head(scs) \o <<"\n">>
         \o write_rows(Tail(ids), Tail(scs))

\* variant: the first record is not written
write_data_drop_first(ids, scs) ==
    OutHeader \o (IF ids = <<>> \/ scs = <<>> THEN <<>>
                  ELSE write_rows(Tail(ids), Tail(scs)))

\* the content of the file after open(out_filepath, 'w') and the writes
write_data(ids, scs) == OutHeader \o write_rows(ids, scs)

\* -------------------------------------------------------------------- main
\* posixpath.split: cut after the last '/', strip trailing slashes of head
LastSlash(p) ==
    LET S == { i \in 1..Len(p) : p[i] = "/" }
    IN  IF S = {} THEN 0 ELSE CHOOSE i \in S : \A k \in S : k <= i

RECURSIVE RStripSlash(_)
RStripSlash(s) ==
    IF s # <<>> /\ s[Len(s)] = "/" THEN RStripSlash(SubSeq(s, 1, Len(s) - 1))
    ELSE s

os_path_split(p) ==
    LET i == LastSlash(p)
        head == SubSeq(p, 1, i)
        tail == SubSeq(p, i + 1, Len(p))
    IN  [head |-> IF \E k \in 1..Len(head) : head[k] # "/"
                  THEN RStripSlash(head) ELSE head,
         tail |-> tail]

out_dir == os_path_split(out_filepath).head

out_filename == os_path_split(out_filepath).tail

DotTsv == <<".", "t", "s", "v">>

Init ==
    /\ pc = "check_filename"
    /\ out_filepath \in OutPaths
    /\ opened = <<>>
    /\ blosum_text = <<>>
    /\ vep_text = <<>>
    /\ blosum_dict = EmptyDict
    /\ hgvs_ids = <<>>
    /\ ref_aas = <<>>
    /\ mut_aas = <<>>
    /\ scores = <<>>
    /\ out_file = InitialFile(out_filepath)
    /\ exc = NoExc

\* if '.tsv' not in out_filename: sys.exit(...)
CheckFilename ==
    /\ pc = "check_filename"
    /\ IF ~Contains(out_filename, DotTsv)
       THEN /\ pc' = "exit"
            /\ exc' = SysExit("ERROR: filename should contain .tsv extension!",
                              out_filename)
       ELSE /\ pc' = "check_dir"
            /\ exc' = exc
    /\ UNCHANGED <<out_filepath, opened, blosum_text, vep_text, blosum_dict,
                   hgvs_ids, ref_aas, mut_aas, scores, out_file>>

\* variant: the directory is tested only after the matrix file was opened
CheckDir_late ==
    /\ pc = "check_dir"
    /\ IF ~os_path_exists(out_dir)
       THEN /\ pc' = "exit"
            /\ exc' = SysExit("ERROR: output directory does not exist!",
                              out_dir)
            /\ opened' = Append(opened, "blosum")
       ELSE /\ pc' = "parse_blosum"
            /\ exc' = exc
            /\ opened' = opened
    /\ UNCHANGED <<out_filepath, blosum_text, vep_text, blosum_dict,
                   hgvs_ids, ref_aas, mut_aas, scores, out_file>>

\* if not os.path.exists(out_dir): sys.exit(...)
CheckDir ==
    /\ pc = "check_dir"
    /\ IF ~os_path_exists(out_dir)
       THEN /\ pc' = "exit"
            /\ exc' = SysExit("ERROR: output directory does not exist!",
                              out_dir)
       ELSE /\ pc' = "parse_blosum"
            /\ exc' = exc
    /\ UNCHANGED <<out_filepath, opened, blosum_text, vep_text, blosum_dict,
                   hgvs_ids, ref_aas, mut_aas, scores, out_file>>

\* blosum_dict = parse_blosum(blosum_path)
ParseBlosum ==
    /\ pc = "parse_blosum"
    /\ \E f \in BlosumFiles :
         LET r == parse_blosum(f)
         IN  /\ blosum_text' = f
             /\ opened' = Append(opened, "blosum")
             /\ IF r.exc.type = "none"
                THEN /\ blosum_dict' = r.val
                     /\ pc' = "parse_vep"
                     /\ exc' = exc
                ELSE /\ blosum_dict' = blosum_dict
                     /\ pc' = "error"
                     /\ exc' = r.exc
    /\ UNCHANGED <<out_filepath, vep_text, hgvs_ids, ref_aas, mut_aas,
                   scores, out_file>>

\* variant: the output file is opened for writing before the variants are read
ParseVep_out_first ==
    /\ pc = "parse_vep"
    /\ \E f \in VepFiles :
         LET r == parse_vep(f)
         IN  /\ vep_text' = f
             /\ opened' = Append(opened, "vep")
             /\ IF r.exc.type = "none"
                THEN /\ hgvs_ids' = r.val.hgvs_ids
                     /\ ref_aas' = r.val.ref_aas
                     /\ mut_aas' = r.val.mut_aas
                     /\ pc' = "run_baseline"
                     /\ exc' = exc
                ELSE /\ UNCHANGED <<hgvs_ids, ref_aas, mut_aas>>
                     /\ pc' = "error"
                     /\ exc' = r.exc
    /\ out_file' = [exists |-> TRUE, data |-> <<>>]
    /\ UNCHANGED <<out_filepath, blosum_text, blosum_dict, scores>>

\* hgvs_ids, ref_aas, mut_aas = parse_vep(vep_path)
ParseVep ==
    /\ pc = "parse_vep"
    /\ \E f \in VepFiles :
         LET r == parse_vep(f)
         IN  /\ vep_text' = f
             /\ opened' = Append(opened, "vep")
             /\ IF r.exc.type = "none"
                THEN /\ hgvs_ids' = r.val.hgvs_ids
                     /\ ref_aas' = r.val.ref_aas
                     /\ mut_aas' = r.val.mut_aas
                     /\ pc' = "run_baseline"
                     /\ exc' = exc
                ELSE /\ UNCHANGED <<hgvs_ids, ref_aas, mut_aas>>
                     /\ pc' = "error"
                     /\ exc' = r.exc
    /\ UNCHANGED <<out_filepath, blosum_text, blosum_dict, scores, out_file>>

\* scores = run_baseline(hgvs_ids, ref_aas, mut_aas, blosum_dict)
RunBaseline ==
    /\ pc = "run_baseline"
    /\ LET r == run_baseline(hgvs_ids, ref_aas, mut_aas, blosum_dict)
       IN  IF r.exc.type = "none"
           THEN /\ scores' = r.val
                /\ pc' = "write_data"
                /\ exc' = exc
           ELSE /\ scores' = scores
                /\ pc' = "error"
                /\ exc' = r.exc
    /\ UNCHANGED <<out_filepath, opened, blosum_text, vep_text, blosum_dict,
                   hgvs_ids, ref_aas, mut_aas, out_file>>

RECURSIVE RStripEmpty(_)
\* the components of a path without those of its trailing slashes
RStripEmpty(comps) ==
    IF comps # <<>> /\ comps[Len(comps)] = <<>>
    THEN RStripEmpty(SubSeq(comps, 1, Len(comps) - 1))
    ELSE comps

\* open(path, 'w'): NoExc when the file can be opened for writing (created
\* or truncated), else the OSError that open raises
open_w(path) ==
    LET comps == SplitOn(path, "/")
        cs == RStripEmpty(comps)
        last == cs[Len(cs)]
        parent == Walk(WalkStart(path), SubSeq(cs, 1, Len(cs) - 1))
    IN  IF path = <<>>
        THEN Raise("FileNotFoundError", "No such file or directory", <<path>>)
        ELSE IF cs = <<>>
        THEN Raise("IsADirectoryError", "Is a directory", <<path>>)
        ELSE IF parent.st = "enoent"
        THEN Raise("FileNotFoundError", "No such file or directory", <<path>>)
        ELSE IF parent.st \in {"file", "enotdir"}
        THEN Raise("NotADirectoryError", "Not a directory", <<path>>)
        ELSE IF \/ Len(cs) < Len(comps)
                \/ last \in { <<".">>, <<".", ".">> }
                \/ Append(parent.node, last) \in DirNodes
        THEN Raise("IsADirectoryError", "Is a directory", <<path>>)
        ELSE NoExc

\* write_data(hgvs_ids, scores, out_filepath)
WriteData ==
    /\ pc = "write_data"
    /\ IF open_w(out_filepath).type = "none"
       THEN /\ opened' = Append(opened, "out")
            /\ out_file' = [exists |-> TRUE,
                            data |-> write_data(hgvs_ids, scores)]
            /\ pc' = "done"
            /\ exc' = exc
       ELSE /\ opened' = opened
            /\ out_file' = out_file
            /\ pc' = "error"
            /\ exc' = open_w(out_filepath)
    /\ UNCHANGED <<out_filepath, blosum_text, vep_text, blosum_dict,
                   hgvs_ids, ref_aas, mut_aas, scores>>

Next ==
    \/ CheckFilename
    \/ CheckDir
    \/ ParseBlosum
    \/ ParseVep
    \/ RunBaseline
    \/ WriteData

Spec == Init /\ [][Next]_vars


\* ===================================================================
\* Properties.  The text of the files is read back here with its own
\* operators (positions of the separators), not with the parser's.
\* ===================================================================
SepPos(s, sep) == { i \in 1..Len(s) : s[i] = sep }

\* the k-th piece of s cut at every sep (k = 1, 2, ...); <<>> past the end
Piece(s, sep, k) ==
    LET t == s \o <<sep>>
        P == SepPos(t, sep)
        end(m) == CHOOSE i \in P : Cardinality({ x \in P : x < i }) = m - 1
    IN  IF k > Cardinality(P) THEN <<>>
        ELSE SubSeq(t, IF k = 1 THEN 1 ELSE end(k - 1) + 1, end(k) - 1)

NPieces(s, sep) == Cardinality(SepPos(s, sep)) + 1

\* a line without its terminator, "\n" or "\r\n"
Chomp(line) ==
    LET n == Len(line)
    IN  IF n >= 2 /\ line[n - 1] = "\r" /\ line[n] = "\n"
        THEN SubSeq(line, 1, n - 2)
        ELSE IF n >= 1 /\ line[n] = "\n"
             THEN SubSeq(line, 1, n - 1) ELSE line

Range(f) == { f[i] : i \in DOMAIN f }

\* the lines of a file that are kept by a test, in file order
Kept(f, keep(_)) == SelectSeq(f, keep)

NotHash(line) == line = <<>> \/ line[1] # "#"

NotHashNotX(line) == line = <<>> \/ line[1] \notin {"#", "x"}

\* the variant lines that do not begin with '#'
VepData == Kept(vep_text, NotHash)

\* the variant lines after the first one
VepAfterFirst == SubSeq(vep_text, 2, Len(vep_text))

\* the lines of the output file after its header, and their identifiers
OutLineCount == Cardinality(SepPos(out_file.data, "\n"))

OutId(i) == Piece(Piece(out_file.data, "\n", i + 1), "\t", 1)

\* the matrix rows as the code takes them: neither '#' nor 'x' in front
BlosumRows == Kept(blosum_text, NotHashNotX)

RowSym(rows, i) == Piece(Chomp(rows[i]), " ", 1)

RowScore(rows, i, j) == Piece(Chomp(rows[i]), " ", j + 1)

RowScoreCount(rows, i) == NPieces(Chomp(rows[i]), " ") - 1

\* parse_blosum has returned a table
BlosumParsed == pc \in {"parse_vep", "run_baseline", "write_data", "done"}
                \/ (pc = "error" /\ Len(opened) >= 2)

BlosumRaised == pc = "error" /\ opened = <<"blosum">>

\* parse_vep has returned its three lists
VepParsed == pc \in {"run_baseline", "write_data", "done"}
             \/ (pc = "error" /\ Len(opened) >= 2
                 /\ exc.type \notin {"IndexError", "ValueError"})

\* record i names a symbol the matrix does not have
Missing(i) ==
    \/ ref_aas[i] \notin DOMAIN blosum_dict
    \/ mut_aas[i] \notin DOMAIN blosum_dict[ref_aas[i]]

PathAcceptable ==
    /\ Contains(out_filename, DotTsv)
    /\ Stat(out_dir).st \in {"dir", "file"}

\* ------------------------------------------------------------------- C1
\* C1 as stated: after a successful run the output has one data line per
\* input line after the first, the i-th carrying field 0 of that line.
C1_AsStated ==
    pc = "done" =>
        /\ OutLineCount - 1 = Len(VepAfterFirst)
        /\ \A i \in 1..Len(VepAfterFirst) :
               OutId(i) = Piece(Chomp(VepAfterFirst[i]), "\t", 1)

\* C1 (amended): after a successful run the output file has its header and
\* then exactly one data line per input line that does not begin with '#',
\* in input order, the i-th carrying field 0 of the i-th such line.
C1_RoundTrip ==
    pc = "done" =>
        /\ out_file.exists
        /\ OutLineCount - 1 = Len(VepData)
        /\ Piece(out_file.data, "\n", 1) = Chomp(OutHeader)
        /\ \A i \in 1..Len(VepData) :
               OutId(i) = Piece(Chomp(VepData[i]), "\t", 1)

C1_Witness ==
    /\ pc = "done"
    /\ Len(VepData) = 2
    /\ OutLineCount = 3
    /\ OutId(1) # OutId(2)

\* ------------------------------------------------------------------- C2
\* C2: every score run_baseline returns is matrix[ref][mut] of its record,
\* reference as row and mutant as column, one score per record.
C2_Lookup ==
    pc \in {"write_data", "done"} =>
        /\ Len(scores) = Len(hgvs_ids)
        /\ \A i \in 1..Len(hgvs_ids) :
               /\ ~Missing(i)
               /\ scores[i] = blosum_dict[ref_aas[i]][mut_aas[i]]

C2_Witness ==
    /\ pc = "write_data"
    /\ \E i \in 1..Len(hgvs_ids) :
           /\ ref_aas[i] # mut_aas[i]
           /\ blosum_dict[ref_aas[i]][mut_aas[i]]
                  # blosum_dict[mut_aas[i]][ref_aas[i]]
           /\ scores[i] = blosum_dict[ref_aas[i]][mut_aas[i]]

\* ------------------------------------------------------------------- C3
\* C3 as stated: once run_baseline has run on records of which one names a
\* symbol the matrix lacks, the run has ended in an error that names that
\* record's identifier and its symbol pair, and no output was written.
C3_AsStated ==
    (VepParsed /\ pc # "run_baseline"
       /\ \E i \in 1..Len(hgvs_ids) : Missing(i)) =>
        LET i == CHOOSE k \in 1..Len(hgvs_ids) :
                     Missing(k) /\ \A m \in 1..(k - 1) : ~Missing(m)
        IN  /\ pc = "error"
            /\ out_file = InitialFile(out_filepath)
            /\ {hgvs_ids[i], ref_aas[i], mut_aas[i]} \subseteq Range(exc.args)

\* ------------------------------------------------------------------- C4
\* C4: a run that ends in the rejection of the output path has opened no
\* file and left the output file as it was, with a message and a non-zero
\* status; a run that has opened any file has an output path that passed
\* both checks.
C4_ValidateFirst ==
    /\ pc = "exit" =>
           /\ opened = <<>>
           /\ blosum_text = <<>> /\ vep_text = <<>>
           /\ out_file = InitialFile(out_filepath)
           /\ exc.type = "SystemExit" /\ exc.status # 0 /\ exc.msg # ""
    /\ (~PathAcceptable /\ pc \notin {"check_filename", "check_dir"}) =>
           pc = "exit"
    /\ opened # <<>> => PathAcceptable

C4_Witness ==
    /\ pc = "exit"
    /\ Contains(out_filename, DotTsv)
    /\ out_dir = <<"m">>
    /\ opened = <<>>

\* ------------------------------------------------------------------- C5
\* C5: a run that ends in an uncaught error of a stage before writing has
\* not opened the output file and has left it as it was; the output file is
\* opened only after both parsers returned and every record has its score.
C5_FailFast ==
    /\ pc = "error" =>
           /\ "out" \notin Range(opened)
           /\ out_file = InitialFile(out_filepath)
           /\ exc.status # 0
    /\ "out" \in Range(opened) =>
           /\ opened = <<"blosum", "vep", "out">>
           /\ exc = NoExc
           /\ Len(scores) = Len(hgvs_ids)
           /\ Len(hgvs_ids) = Len(VepData)
           /\ \A i \in 1..Len(VepData) :
                  NPieces(Piece(Chomp(VepData[i]), "\t", 2), "/") = 2
           /\ \A i \in 1..Len(hgvs_ids) : ~Missing(i)

C5_Witness ==
    /\ pc = "error"
    /\ exc.type = "ValueError"
    /\ \E i \in 1..Len(VepData) :
           NPieces(Piece(Chomp(VepData[i]), "\t", 2), "/") # 2
    /\ out_file.exists /\ out_file.data = OldContent

\* ------------------------------------------------------------------- C6
\* C6 as stated: main goes on to read the inputs only if the output
\* filename ends with '.tsv'.
C6_AsStated ==
    pc \notin {"check_filename", "exit"} =>
        /\ Len(out_filename) >= Len(DotTsv)
        /\ SubSeq(out_filename, Len(out_filename) - Len(DotTsv) + 1,
                  Len(out_filename)) = DotTsv

\* ------------------------------------------------------------------- C7
\* C7 as stated: the records parse_vep returns are those of the lines after
\* the first, one per line, whatever the first line is.
C7_AsStated ==
    VepParsed =>
        /\ Len(hgvs_ids) = Len(VepAfterFirst)
        /\ \A i \in 1..Len(VepAfterFirst) :
               hgvs_ids[i] = Piece(Chomp(VepAfterFirst[i]), "\t", 1)

\* C7 (amended): parse_vep skips exactly the lines that begin with '#',
\* wherever they stand, and returns one record per other line, in order:
\* field 0 as identifier, field 1 cut at its '/' as reference and mutant.
C7_SkipHash ==
    VepParsed =>
        /\ Len(hgvs_ids) = Len(VepData)
        /\ Len(ref_aas) = Len(VepData) /\ Len(mut_aas) = Len(VepData)
        /\ \A i \in 1..Len(VepData) :
               LET line == Chomp(VepData[i])
               IN  /\ hgvs_ids[i] = Piece(line, "\t", 1)
                   /\ ref_aas[i] = Piece(Piece(line, "\t", 2), "/", 1)
                   /\ mut_aas[i] = Piece(Piece(line, "\t", 2), "/", 2)

C7_Witness ==
    /\ pc = "run_baseline"
    /\ Len(vep_text) = 2
    /\ NotHash(vep_text[1])
    /\ ~NotHash(vep_text[2])
    /\ hgvs_ids = << <<"p">> >>

\* ------------------------------------------------------------------- C8
\* C8 as stated: when some matrix row has a number of score tokens that
\* differs from the number of rows, parse_blosum raises and returns no
\* table.
C8_AsStated ==
    (Len(opened) >= 1
       /\ \E i \in 1..Len(BlosumRows) :
              RowScoreCount(BlosumRows, i) # Len(BlosumRows)) =>
        BlosumRaised

\* ------------------------------------------------------------------- C9
\* C9 as stated, for a file whose first line is the 'x' column header and
\* that has no comment: every later line is a row, the keys are the row
\* symbols and table[s_i][s_j] = scores_i[j] for all i, j.
C9_AsStated ==
    (BlosumParsed /\ blosum_text # <<>> /\ blosum_text[1] = BlosumHeader
       /\ \A k \in 1..Len(blosum_text) : NotHash(blosum_text[k])) =>
        LET rows == SubSeq(blosum_text, 2, Len(blosum_text))
        IN  /\ DOMAIN blosum_dict = { RowSym(rows, i) : i \in 1..Len(rows) }
            /\ \A i, j \in 1..Len(rows) :
                   /\ RowSym(rows, i) \in DOMAIN blosum_dict
                   /\ RowSym(rows, j) \in DOMAIN blosum_dict[RowSym(rows, i)]
                   /\ blosum_dict[RowSym(rows, i)][RowSym(rows, j)]
                          = RowScore(rows, i, j)

\* C9 (amended): the rows are the lines that begin with neither '#' nor
\* 'x'; the table's keys are the row symbols, and table[s_i][s_j] =
\* scores_i[j] for every i, j that are the last rows carrying their symbols
\* (so for all i, j when the row symbols are distinct).
C9_Table ==
    BlosumParsed =>
        LET rows == BlosumRows
            n == Len(rows)
            last(i) == \A k \in (i + 1)..n : RowSym(rows, k) # RowSym(rows, i)
        IN  /\ DOMAIN blosum_dict = { RowSym(rows, i) : i \in 1..n }
            /\ \A i \in 1..n :
                   DOMAIN blosum_dict[RowSym(rows, i)]
                       = { RowSym(rows, k) : k \in 1..n }
            /\ \A i, j \in 1..n :
                   (last(i) /\ last(j)) =>
                       blosum_dict[RowSym(rows, i)][RowSym(rows, j)]
                           = RowScore(rows, i, j)

C9_Witness ==
    /\ pc = "parse_vep"
    /\ blosum_text = <<BlosumHeader, BlosumRowA, BlosumRowV>>
    /\ blosum_dict[<<"A">>][<<"V">>] = <<"1">>
    /\ blosum_dict[<<"V">>][<<"A">>] = <<"0">>

\* ------------------------------------------------------------------ C10
\* C10 as stated: every output path without a directory part ends in exit
\* with the directory message before any input is opened, and a run that
\* reaches parse_blosum has a non-empty output directory part that is an
\* existing directory.  Refuted twice: the bare name r.txt exits one test
\* earlier with the filename message (line 170), and d/r.tsv/x.tsv reaches
\* parse_blosum although its directory part d/r.tsv is a regular file
\* (os.path.exists, line 174, does not ask for a directory).
C10_AsStated ==
    /\ (out_dir = <<>> /\ pc \notin {"check_filename", "check_dir"}) =>
           /\ pc = "exit"
           /\ opened = <<>>
           /\ exc.msg = "ERROR: output directory does not exist!"
           /\ exc.args = << <<>> >>
    /\ (pc \notin {"check_filename", "check_dir", "exit"}) =>
           /\ out_dir # <<>>
           /\ Stat(out_dir).st = "dir"

\* C10 (amended): with an output path that has no directory part the run
\* never opens a file and ends in exit with status 1: with the directory
\* message on the empty directory when the filename contains '.tsv', with
\* the filename message when it does not; a run that reaches parse_blosum
\* has a non-empty output directory part that os.path.exists accepts, an
\* existing directory or an existing regular file.
C10_BareFilename ==
    /\ (out_dir = <<>> /\ pc \notin {"check_filename", "check_dir"}) =>
           /\ pc = "exit"
           /\ opened = <<>>
           /\ exc.status = 1
           /\ Contains(out_filename, DotTsv) =>
                  /\ exc.msg = "ERROR: output directory does not exist!"
                  /\ exc.args = << <<>> >>
           /\ ~Contains(out_filename, DotTsv) =>
                  /\ exc.msg = "ERROR: filename should contain .tsv extension!"
                  /\ exc.args = << out_filename >>
    /\ (pc \notin {"check_filename", "check_dir", "exit"}) =>
           /\ out_dir # <<>>
           /\ Stat(out_dir).st \in {"dir", "file"}

C10_Witness ==
    /\ pc = "exit"
    /\ out_filepath = <<"r", ".", "t", "s", "v">>
    /\ exc.msg = "ERROR: output directory does not exist!"
    /\ opened = <<>>

====
